---- MODULE Spec2Model ----
(***************************************************************************)
(* Model of python-lambda/lambda_function.py: the request handler          *)
(* lambda_handler(event, context), the JSON text it produces and the log   *)
(* records it emits.                                                       *)
(*                                                                         *)
(* A Python str is a sequence of characters.  A character is a TLA+ string *)
(* of one ASCII character, "LF" for the line feed, or "U+XXXX" for a code  *)
(* point outside ASCII.                                                    *)
(***************************************************************************)
EXTENDS Integers, Sequences, FiniteSets, TLC

(***************************************************************************)
(* Bounds                                                                  *)
(***************************************************************************)
\* the wall clock advances at most this many times
MaxClock == 2

(***************************************************************************)
(* Python values                                                           *)
(***************************************************************************)
Str(s) == [t |-> "str", v |-> s]
None == [t |-> "None", v |-> <<>>]
\* the bytes object b'': a value json has no representation for
Bytes == [t |-> "bytes", v |-> <<>>]
\* a dict with str keys: v maps each key to its value
Dict(f) == [t |-> "dict", v |-> f]
EmptyDict == Dict(<<>>)

\* str(v) as used by an f-string replacement field
PyStr(v) ==
  CASE v.t = "str" -> v.v
    [] v.t = "None" -> <<"N", "o", "n", "e">>
    [] v.t = "bytes" -> <<"b", "'", "'">>

(***************************************************************************)
(* Keys of the mappings the handler reads and writes                       *)
(***************************************************************************)
K_message == <<"m", "e", "s", "s", "a", "g", "e">>
K_test == <<"t", "e", "s", "t">>
K_timestamp == <<"t", "i", "m", "e", "s", "t", "a", "m", "p">>
K_request_id == <<"r", "e", "q", "u", "e", "s", "t", "_", "i", "d">>
K_python_version == <<"p", "y", "t", "h", "o", "n", "_", "v", "e", "r", "s", "i", "o", "n">>
K_input_event == <<"i", "n", "p", "u", "t", "_", "e", "v", "e", "n", "t">>
K_processed_by == <<"p", "r", "o", "c", "e", "s", "s", "e", "d", "_", "b", "y">>
K_status == <<"s", "t", "a", "t", "u", "s">>
K_toukon_power == <<"t", "o", "u", "k", "o", "n", "_", "p", "o", "w", "e", "r">>
K_test_param == <<"t", "e", "s", "t", "_", "p", "a", "r", "a", "m">>
K_error == <<"e", "r", "r", "o", "r">>
\* keys the handler never reads: one at the top of the event, one nested
K_extra == <<"x", "\"">>
K_inner == <<"n">>

\* A dict is iterated in insertion order.  The order is fixed here: the order
\* of the literals in the source, then the event's keys.
KeyOrder ==
  << K_error, K_message, K_timestamp, K_request_id, K_python_version,
     K_input_event, K_processed_by, K_status, K_toukon_power, K_test_param,
     K_test, K_extra, K_inner >>

\* one-entry dict, and dict union where the left operand wins
Entry(k, v) == [x \in {k} |-> v]
Merge(f, g) == [x \in (DOMAIN f) \cup (DOMAIN g) |-> IF x \in DOMAIN f THEN f[x] ELSE g[x]]

DictKeys(d) == SelectSeq(KeyOrder, LAMBDA k : k \in DOMAIN d.v)

(***************************************************************************)
(* json.dumps(obj, ensure_ascii=False, indent=...)                         *)
(***************************************************************************)
TypeErrorMsg ==
  << "O", "b", "j", "e", "c", "t", " ", "o", "f", " ", "t", "y", "p", "e", " ",
     "b", "y", "t", "e", "s", " ", "i", "s", " ", "n", "o", "t", " ",
     "J", "S", "O", "N", " ", "s", "e", "r", "i", "a", "l", "i", "z", "a", "b", "l", "e" >>

\* an exception object: its class, and what str() of it does
Exc(type, msg) == [type |-> type, msg |-> msg, strOK |-> TRUE]
NoExc == [type |-> "none", msg |-> <<>>, strOK |-> TRUE]

RECURSIVE Serializable(_)
Serializable(v) ==
  CASE v.t = "bytes" -> FALSE
    [] v.t = "dict" -> \A k \in DOMAIN v.v : Serializable(v.v[k])
    [] OTHER -> TRUE

\* with ensure_ascii=False only the quote, the backslash and control
\* characters are escaped; every other code point is written as it is
EscapeChar(c) ==
  CASE c = "\"" -> <<"\\", "\"">>
    [] c = "\\" -> <<"\\", "\\">>
    [] c = "LF" -> <<"\\", "n">>
    [] OTHER -> <<c>>

\* the escapes of s[lo..hi], concatenated
RECURSIVE EscapeRange(_, _, _)
EscapeRange(s, lo, hi) ==
  IF lo > hi THEN <<>>
  ELSE IF lo = hi THEN EscapeChar(s[lo])
  ELSE LET mid == (lo + hi) \div 2 IN
       EscapeRange(s, lo, mid) \o EscapeRange(s, mid + 1, hi)

EncodeString(s) == <<"\"">> \o EscapeRange(s, 1, Len(s)) \o <<"\"">>

RECURSIVE Spaces(_)
Spaces(n) == IF n = 0 THEN <<>> ELSE <<" ">> \o Spaces(n - 1)

\* indent < 0 stands for indent=None
NewlineIndent(indent, level) ==
  IF indent < 0 THEN <<>> ELSE <<"LF">> \o Spaces(indent * level)

ItemSeparator(indent, level) ==
  IF indent < 0 THEN <<",", " ">> ELSE <<",">> \o NewlineIndent(indent, level)

RECURSIVE Encode(_, _, _), EncodeItems(_, _, _, _, _)
Encode(v, indent, level) ==
  CASE v.t = "str" -> EncodeString(v.v)
    [] v.t = "None" -> <<"n", "u", "l", "l">>
    [] v.t = "dict" ->
         IF DOMAIN v.v = {} THEN <<"{", "}">>
         ELSE <<"{">> \o NewlineIndent(indent, level + 1)
              \o EncodeItems(v, DictKeys(v), 1, indent, level + 1)
              \o NewlineIndent(indent, level) \o <<"}">>

EncodeItems(d, keys, i, indent, level) ==
  IF i > Len(keys) THEN <<>>
  ELSE (IF i > 1 THEN ItemSeparator(indent, level) ELSE <<>>)
       \o EncodeString(keys[i]) \o <<":", " ">>
       \o Encode(d.v[keys[i]], indent, level)
       \o EncodeItems(d, keys, i + 1, indent, level)

\* the outcome of json.dumps: the text, or the TypeError it raises
JsonDumps(v, indent) ==
  IF Serializable(v)
  THEN [ok |-> TRUE, text |-> Encode(v, indent, 0), exc |-> NoExc]
  ELSE [ok |-> FALSE, text |-> <<>>, exc |-> Exc("TypeError", TypeErrorMsg)]

(***************************************************************************)
(* json.loads: how a caller reads the body back                            *)
(***************************************************************************)
ParseFail == [ok |-> FALSE, v |-> None, i |-> 0]
ParseOK(v, i) == [ok |-> TRUE, v |-> v, i |-> i]

RECURSIVE SkipWs(_, _)
SkipWs(txt, i) ==
  IF i <= Len(txt) /\ txt[i] \in {" ", "LF"} THEN SkipWs(txt, i + 1) ELSE i

\* the number of backslashes that end right before position p, counted no
\* further back than position from
BackslashRun(txt, from, p) ==
  LET first == CHOOSE k \in from .. p :
                 /\ \A m \in k .. p - 1 : txt[m] = "\\"
                 /\ k > from => txt[k - 1] # "\\"
  IN p - first

\* inside a string that starts at from: p is the backslash that opens an escape
OpensEscape(txt, from, p) ==
  /\ p >= from
  /\ txt[p] = "\\"
  /\ BackslashRun(txt, from, p) % 2 = 0

\* inside a string that starts at from: p is the quote that closes it
ClosesString(txt, from, p) ==
  /\ txt[p] = "\""
  /\ BackslashRun(txt, from, p) % 2 = 0

Unescape(c) ==
  CASE c = "n" -> "LF"
    [] OTHER -> c

\* i is the position after the opening quote
ScanString(txt, i) ==
  IF \A p \in i .. Len(txt) : ~ClosesString(txt, i, p) THEN ParseFail
  ELSE
    LET end == CHOOSE p \in i .. Len(txt) :
                 /\ ClosesString(txt, i, p)
                 /\ \A m \in i .. p - 1 : ~ClosesString(txt, i, m)
        \* the positions where a character or an escape starts
        starts == SelectSeq([k \in 1 .. end - i |-> i + k - 1],
                            LAMBDA p : ~OpensEscape(txt, i, p - 1))
        bad == \E k \in DOMAIN starts :
                 \/ txt[starts[k]] = "LF"
                 \/ /\ txt[starts[k]] = "\\"
                    /\ txt[starts[k] + 1] \notin {"\"", "\\", "n"}
    IN IF bad THEN ParseFail
       ELSE ParseOK([k \in DOMAIN starts |->
                       IF txt[starts[k]] = "\\" THEN Unescape(txt[starts[k] + 1])
                       ELSE txt[starts[k]]],
                    end + 1)

IsNullAt(txt, i) ==
  /\ i + 3 <= Len(txt)
  /\ SubSeq(txt, i, i + 3) = <<"n", "u", "l", "l">>

RECURSIVE ParseValue(_, _), ParseMembers(_, _, _)
ParseValue(txt, i0) ==
  LET i == SkipWs(txt, i0) IN
  IF i > Len(txt) THEN ParseFail
  ELSE IF txt[i] = "\"" THEN
    LET r == ScanString(txt, i + 1) IN
    IF r.ok THEN ParseOK(Str(r.v), r.i) ELSE ParseFail
  ELSE IF txt[i] = "{" THEN
    LET j == SkipWs(txt, i + 1) IN
    IF j <= Len(txt) /\ txt[j] = "}" THEN ParseOK(EmptyDict, j + 1)
    ELSE ParseMembers(txt, j, <<>>)
  ELSE IF IsNullAt(txt, i) THEN ParseOK(None, i + 4)
  ELSE ParseFail

\* i is the position of a member's key; acc holds the members read so far
ParseMembers(txt, i0, acc) ==
  LET i == SkipWs(txt, i0) IN
  IF i > Len(txt) \/ txt[i] # "\"" THEN ParseFail
  ELSE
    LET k == ScanString(txt, i + 1) IN
    IF ~k.ok THEN ParseFail
    ELSE
      LET c == SkipWs(txt, k.i) IN
      IF c > Len(txt) \/ txt[c] # ":" THEN ParseFail
      ELSE
        LET r == ParseValue(txt, c + 1) IN
        IF ~r.ok THEN ParseFail
        ELSE
          LET e == SkipWs(txt, r.i)
              acc2 == Merge(Entry(k.v, r.v), acc)
          IN IF e > Len(txt) THEN ParseFail
             ELSE IF txt[e] = "}" THEN ParseOK(Dict(acc2), e + 1)
             ELSE IF txt[e] = "," THEN ParseMembers(txt, e + 1, acc2)
             ELSE ParseFail

\* the parsed document, or JsonError when the text is not one JSON document
JsonError == [t |-> "JSONDecodeError", v |-> <<>>]
JsonLoads(txt) ==
  LET r == ParseValue(txt, 1) IN
  IF r.ok /\ SkipWs(txt, r.i) > Len(txt) THEN r.v ELSE JsonError


(***************************************************************************)
(* Fixed strings of the handler                                            *)
(***************************************************************************)
GreetingPrefix ==
  << "U+1F525", " ", "U+95D8", "U+9B42", "P", "y", "t", "h", "o", "n", " ",
     "L", "a", "m", "b", "d", "a", " ", "U+6210", "U+529F", "U+3060", "U+FF01",
     " ", "-", " " >>
DefaultMessage == Str(<<"U+95D8", "U+9B42", "U+6CE8", "U+5165", "!">>)
DefaultTest == Str(<<"d", "e", "f", "a", "u", "l", "t">>)
ProcessedBy ==
  Str(<< "P", "y", "t", "h", "o", "n", "U+95D8", "U+9B42", "U+30A8", "U+30F3",
         "U+30B8", "U+30F3" >>)
Victory == Str(<<"V", "I", "C", "T", "O", "R", "Y", "!">>)
Max == Str(<<"M", "A", "X">>)
ErrorDescription ==
  Str(<< "U+95D8", "U+9B42", "U+51E6", "U+7406", "U+3067", "U+30A8", "U+30E9",
         "U+30FC", "U+304C", "U+767A", "U+751F", "U+3057", "U+307E", "U+3057",
         "U+305F" >>)
ErrorStatus == Str(<<"E", "R", "R", "O", "R">>)
Local == Str(<<"l", "o", "c", "a", "l">>)
Unknown == Str(<<"u", "n", "k", "n", "o", "w", "n">>)

ContentType == "application/json; charset=utf-8"
SuccessHeaders ==
  ("Content-Type" :> ContentType) @@ ("X-Toukon-Power" :> "MAX")
    @@ ("X-Python-Engine" :> "True")
\* variant: the error headers are the success headers with one more
ErrorHeadersWithPower ==
  ("Content-Type" :> ContentType) @@ ("X-Toukon-Power" :> "MAX")
    @@ ("X-Toukon-Error" :> "True")

ErrorHeaders ==
  ("Content-Type" :> ContentType) @@ ("X-Toukon-Error" :> "True")

(***************************************************************************)
(* The runtime: version and wall clock                                     *)
(***************************************************************************)
DigitChar(d) == <<"0", "1", "2", "3", "4", "5", "6", "7", "8", "9">>[d + 1]

RECURSIVE Digits(_)
Digits(n) == IF n < 10 THEN <<DigitChar(n)>> ELSE Digits(n \div 10) \o <<DigitChar(n % 10)>>

\* sys.version_info of the interpreter that runs the handler
VersionInfo == [major |-> 3, minor |-> 12, micro |-> 0]
get_python_version ==
  Digits(VersionInfo.major) \o <<".">> \o Digits(VersionInfo.minor) \o <<".">>
    \o Digits(VersionInfo.micro)

\* datetime.utcnow().isoformat() + 'Z' when the clock reads t seconds
IsoFormatZ(t) ==
  << "1", "9", "7", "0", "-", "0", "1", "-", "0", "1", "T", "0", "0", ":" >>
    \o <<DigitChar((t \div 600) % 6), DigitChar((t \div 60) % 10), ":">>
    \o <<DigitChar((t \div 10) % 6), DigitChar(t % 10)>> \o <<"Z">>

(***************************************************************************)
(* Inputs                                                                  *)
(***************************************************************************)
Absent == [t |-> "absent", v |-> <<>>]

\* the event with the given values under message, test and the extra key
MkEvent(m, t, x) ==
  Dict(Merge(IF m = Absent THEN <<>> ELSE Entry(K_message, m),
       Merge(IF t = Absent THEN <<>> ELSE Entry(K_test, t),
             IF x = Absent THEN <<>> ELSE Entry(K_extra, x))))

MessageValues == {Absent, Str(<<"h", "i">>), Str(<<"\"", "\\", "LF", "U+95D8">>), None, Bytes}
TestValues == {Absent, Str(<<"t", "o", "u", "k", "o", "n">>), None, Dict(Entry(K_inner, Str(<<"v">>)))}
ExtraValues ==
  {Absent, Str(<<"e">>), EmptyDict, Dict(Entry(K_inner, None)), Dict(Entry(K_inner, Bytes))}

Events == {MkEvent(m, t, x) : m \in MessageValues, t \in TestValues, x \in ExtraValues}

\* what reading context.aws_request_id does
AttrAbsent == [kind |-> "absent", v |-> None, exc |-> NoExc]
AttrValue(v) == [kind |-> "value", v |-> v, exc |-> NoExc]
AttrRaises(e) == [kind |-> "raises", v |-> None, exc |-> e]

Boom == Exc("RuntimeError", <<"b", "o", "o", "m">>)
\* an exception whose __str__ raises
BrokenStr == [type |-> "BrokenStr", msg |-> <<>>, strOK |-> FALSE]
StrFailure == Exc("StrFailure", <<>>)

ContextNone == [isNone |-> TRUE, truthy |-> FALSE, attr |-> AttrAbsent]
ContextObject(truthy, attr) == [isNone |-> FALSE, truthy |-> truthy, attr |-> attr]

Attrs ==
  { AttrAbsent, AttrValue(Str(<<"r", "-", "1">>)), AttrValue(Bytes),
    AttrRaises(Boom), AttrRaises(BrokenStr) }
Contexts == {ContextNone} \cup {ContextObject(b, a) : b \in BOOLEAN, a \in Attrs}

\* inputs of the paired invocations
PairEvents ==
  { MkEvent(Absent, Absent, Absent),
    MkEvent(Str(<<"h", "i">>), Absent, Str(<<"e">>)),
    MkEvent(Absent, Absent, Dict(Entry(K_inner, Bytes))) }
PairContexts ==
  { ContextNone, ContextObject(TRUE, AttrValue(Str(<<"r", "-", "1">>))),
    ContextObject(TRUE, AttrValue(Bytes)) }

(***************************************************************************)
(* State                                                                   *)
(***************************************************************************)
\* two invocations of the handler; each has its own arguments and locals
Invocations == {"A", "B"}

Unbound == [t |-> "unbound", v |-> <<>>]
NoResponse == [statusCode |-> 0, headers |-> <<>>, body |-> <<>>]

VARIABLES
  pc,             \* where each invocation is
  event, context, \* the arguments
  request_id, current_time, input_message, test_param, response_data,
  exc,            \* the exception being handled, or the one that escaped
  result,         \* the envelope returned to the caller
  log,            \* the records the invocation has emitted, oldest first
  clock           \* the wall clock

args == <<event, context>>
locals == <<request_id, current_time, input_message, test_param, response_data>>
vars == <<pc, event, context, request_id, current_time, input_message, test_param,
          response_data, exc, result, log, clock>>

Record(level, msg) == [level |-> level, msg |-> msg]
LogStartRecord == Record("INFO", "start")
LogEventRecord == Record("INFO", "event")
LogDoneRecord == Record("INFO", "done")
LogErrorRecord == Record("ERROR", "error")

Emit(self, rec) == log' = [log EXCEPT ![self] = Append(@, rec)]
Goto(self, label) == pc' = [pc EXCEPT ![self] = label]
\* variant: the except clause does not catch the exception
RaiseToCaller(self, e) ==
  /\ exc' = [exc EXCEPT ![self] = e]
  /\ Goto(self, "raised")

\* an exception raised inside the try block is caught by its except clause
Raise(self, e) ==
  /\ exc' = [exc EXCEPT ![self] = e]
  /\ Goto(self, "except")

Init ==
  /\ pc = [i \in Invocations |-> "idle"]
  /\ event = [i \in Invocations |-> EmptyDict]
  /\ context = [i \in Invocations |-> ContextNone]
  /\ request_id = [i \in Invocations |-> Unbound]
  /\ current_time = [i \in Invocations |-> Unbound]
  /\ input_message = [i \in Invocations |-> Unbound]
  /\ test_param = [i \in Invocations |-> Unbound]
  /\ response_data = [i \in Invocations |-> Unbound]
  /\ exc = [i \in Invocations |-> NoExc]
  /\ result = [i \in Invocations |-> NoResponse]
  /\ log = [i \in Invocations |-> <<>>]
  /\ clock = 0

(***************************************************************************)
(* lambda_handler                                                          *)
(***************************************************************************)
\* the host calls lambda_handler(e, c)
Invoke(self, E, C) ==
  /\ pc[self] \in {"idle", "returned", "raised"}
  /\ \E e \in E, c \in C :
       /\ event' = [event EXCEPT ![self] = e]
       /\ context' = [context EXCEPT ![self] = c]
  /\ request_id' = [request_id EXCEPT ![self] = Unbound]
  /\ current_time' = [current_time EXCEPT ![self] = Unbound]
  /\ input_message' = [input_message EXCEPT ![self] = Unbound]
  /\ test_param' = [test_param EXCEPT ![self] = Unbound]
  /\ response_data' = [response_data EXCEPT ![self] = Unbound]
  /\ exc' = [exc EXCEPT ![self] = NoExc]
  /\ result' = [result EXCEPT ![self] = NoResponse]
  /\ log' = [log EXCEPT ![self] = <<>>]
  /\ Goto(self, "start")
  /\ UNCHANGED clock

\* logger.info(start)
LogStart(self) ==
  /\ pc[self] = "start"
  /\ Emit(self, LogStartRecord)
  /\ Goto(self, "log_event")
  /\ UNCHANGED <<args, locals, exc, result, clock>>

\* logger.info(f"...{json.dumps(event, ensure_ascii=False)}")
LogEvent(self) ==
  /\ pc[self] = "log_event"
  /\ LET d == JsonDumps(event[self], -1) IN
       IF d.ok
       THEN /\ Emit(self, LogEventRecord)
            /\ Goto(self, "request_id")
            /\ UNCHANGED exc
       ELSE /\ Raise(self, d.exc)
            /\ UNCHANGED log
  /\ UNCHANGED <<args, locals, result, clock>>

\* bool(context)
Truthy(c) == ~c.isNone /\ c.truthy

\* getattr(c, 'aws_request_id', default): only AttributeError gives the default
Getattr(c, default) ==
  CASE c.attr.kind = "absent" -> [ok |-> TRUE, v |-> default, exc |-> NoExc]
    [] c.attr.kind = "value" -> [ok |-> TRUE, v |-> c.attr.v, exc |-> NoExc]
    [] c.attr.kind = "raises" -> [ok |-> FALSE, v |-> None, exc |-> c.attr.exc]

\* getattr(context, 'aws_request_id', 'unknown') if context else 'local'
RequestId(c) ==
  IF Truthy(c) THEN Getattr(c, Unknown) ELSE [ok |-> TRUE, v |-> Local, exc |-> NoExc]

\* variant: request_id is a module-level name shared by every invocation
DeriveRequestIdGlobal(self) ==
  /\ pc[self] = "request_id"
  /\ LET r == RequestId(context[self]) IN
       IF r.ok
       THEN /\ request_id' = [i \in Invocations |-> r.v]
            /\ Goto(self, "current_time")
            /\ UNCHANGED exc
       ELSE /\ Raise(self, r.exc)
            /\ UNCHANGED request_id
  /\ UNCHANGED <<args, current_time, input_message, test_param, response_data,
                 result, log, clock>>

DeriveRequestId(self) ==
  /\ pc[self] = "request_id"
  /\ LET r == RequestId(context[self]) IN
       IF r.ok
       THEN /\ request_id' = [request_id EXCEPT ![self] = r.v]
            /\ Goto(self, "current_time")
            /\ UNCHANGED exc
       ELSE /\ Raise(self, r.exc)
            /\ UNCHANGED request_id
  /\ UNCHANGED <<args, current_time, input_message, test_param, response_data,
                 result, log, clock>>

\* current_time = datetime.utcnow().isoformat() + 'Z'
ReadClock(self) ==
  /\ pc[self] = "current_time"
  /\ current_time' = [current_time EXCEPT ![self] = Str(IsoFormatZ(clock))]
  /\ Goto(self, "read_fields")
  /\ UNCHANGED <<args, request_id, input_message, test_param, response_data,
                 exc, result, log, clock>>

\* variant: d.get(k) or default
DictGetOrDefault(d, k, default) ==
  IF k \in DOMAIN d.v /\ d.v[k] # None THEN d.v[k] ELSE default

\* dict.get(key, default)
DictGet(d, k, default) == IF k \in DOMAIN d.v THEN d.v[k] ELSE default

\* variant: event.setdefault(key, default) in place of event.get
ReadFieldsSetdefault(self) ==
  /\ pc[self] = "read_fields"
  /\ input_message' = [input_message EXCEPT ![self] = DictGet(event[self], K_message, DefaultMessage)]
  /\ test_param' = [test_param EXCEPT ![self] = DictGet(event[self], K_test, DefaultTest)]
  /\ event' = [event EXCEPT ![self] =
                 Dict(Merge(@.v, Merge(Entry(K_message, DefaultMessage),
                                       Entry(K_test, DefaultTest))))]
  /\ Goto(self, "build")
  /\ UNCHANGED <<context, request_id, current_time, response_data, exc, result, log, clock>>

ReadFields(self) ==
  /\ pc[self] = "read_fields"
  /\ input_message' = [input_message EXCEPT ![self] = DictGet(event[self], K_message, DefaultMessage)]
  /\ test_param' = [test_param EXCEPT ![self] = DictGet(event[self], K_test, DefaultTest)]
  /\ Goto(self, "build")
  /\ UNCHANGED <<args, request_id, current_time, response_data, exc, result, log, clock>>

\* variant: input_event holds only the keys the handler reads
ResponseDataFiltered(ev, rid, now, msg, test) ==
  Dict(Merge(Entry(K_message, Str(GreetingPrefix \o PyStr(msg))),
       Merge(Entry(K_timestamp, now),
       Merge(Entry(K_request_id, rid),
       Merge(Entry(K_python_version, Str(get_python_version)),
       Merge(Entry(K_input_event,
                   Dict([k \in (DOMAIN ev.v) \cap {K_message, K_test} |-> ev.v[k]])),
       Merge(Entry(K_processed_by, ProcessedBy),
       Merge(Entry(K_status, Victory),
       Merge(Entry(K_toukon_power, Max),
             Entry(K_test_param, test))))))))))

\* the response_data literal
ResponseData(ev, rid, now, msg, test) ==
  Dict(Merge(Entry(K_message, Str(GreetingPrefix \o PyStr(msg))),
       Merge(Entry(K_timestamp, now),
       Merge(Entry(K_request_id, rid),
       Merge(Entry(K_python_version, Str(get_python_version)),
       Merge(Entry(K_input_event, ev),
       Merge(Entry(K_processed_by, ProcessedBy),
       Merge(Entry(K_status, Victory),
       Merge(Entry(K_toukon_power, Max),
             Entry(K_test_param, test))))))))))

\* the response literal, given the serialized body
Response(body) == [statusCode |-> 200, headers |-> SuccessHeaders, body |-> body]

\* response_data = {...}; response = {..., "body": json.dumps(response_data, ...)}
BuildResponse(self) ==
  /\ pc[self] = "build"
  /\ LET data == ResponseData(event[self], request_id[self], current_time[self],
                              input_message[self], test_param[self])
         d == JsonDumps(data, 2)
     IN /\ response_data' = [response_data EXCEPT ![self] = data]
        /\ IF d.ok
           THEN /\ result' = [result EXCEPT ![self] = Response(d.text)]
                /\ Goto(self, "complete")
                /\ UNCHANGED exc
           ELSE /\ Raise(self, d.exc)
                /\ UNCHANGED result
  /\ UNCHANGED <<args, request_id, current_time, input_message, test_param, log, clock>>

\* logger.info(done); return response
Complete(self) ==
  /\ pc[self] = "complete"
  /\ Emit(self, LogDoneRecord)
  /\ Goto(self, "returned")
  /\ UNCHANGED <<args, locals, exc, result, clock>>

\* except Exception as e: logger.error(f"...{str(e)}", exc_info=True)
LogError(self) ==
  /\ pc[self] = "except"
  /\ IF exc[self].strOK
     THEN /\ Emit(self, LogErrorRecord)
          /\ Goto(self, "error_response")
          /\ UNCHANGED exc
     ELSE \* str(e) raises inside the handler: nothing catches it
          /\ exc' = [exc EXCEPT ![self] = StrFailure]
          /\ Goto(self, "raised")
          /\ UNCHANGED log
  /\ UNCHANGED <<args, locals, result, clock>>

\* the payload of the error_response literal
ErrorData(e, now) ==
  Dict(Merge(Entry(K_error, ErrorDescription),
       Merge(Entry(K_message, Str(e.msg)),
       Merge(Entry(K_timestamp, now),
             Entry(K_status, ErrorStatus)))))

\* variant: the error envelope carries the success status
ErrorResponseOK(body) == [statusCode |-> 200, headers |-> ErrorHeaders, body |-> body]

\* the error_response literal, given the serialized body
ErrorResponse(body) == [statusCode |-> 500, headers |-> ErrorHeaders, body |-> body]

\* variant: the error body reuses current_time when the try block got that far
ReturnErrorReusingTime(self) ==
  /\ pc[self] = "error_response"
  /\ LET now == IF current_time[self] # Unbound THEN current_time[self]
                ELSE Str(IsoFormatZ(clock))
         d == JsonDumps(ErrorData(exc[self], now), 2)
     IN result' = [result EXCEPT ![self] = ErrorResponse(d.text)]
  /\ Goto(self, "returned")
  /\ UNCHANGED <<args, locals, exc, log, clock>>

\* variant: the completion record is emitted on the way out of either path
ReturnErrorLogsDone(self) ==
  /\ pc[self] = "error_response"
  /\ LET d == JsonDumps(ErrorData(exc[self], Str(IsoFormatZ(clock))), 2) IN
       result' = [result EXCEPT ![self] = ErrorResponse(d.text)]
  /\ Emit(self, LogDoneRecord)
  /\ Goto(self, "returned")
  /\ UNCHANGED <<args, locals, exc, clock>>

\* error_response = {...}; return error_response
ReturnError(self) ==
  /\ pc[self] = "error_response"
  /\ LET d == JsonDumps(ErrorData(exc[self], Str(IsoFormatZ(clock))), 2) IN
       result' = [result EXCEPT ![self] = ErrorResponse(d.text)]
  /\ Goto(self, "returned")
  /\ UNCHANGED <<args, locals, exc, log, clock>>

\* time passes
Tick ==
  /\ clock < MaxClock
  /\ clock' = clock + 1
  /\ UNCHANGED <<pc, args, locals, exc, result, log>>

Handler(self) ==
  \/ LogStart(self)
  \/ LogEvent(self)
  \/ DeriveRequestId(self)
  \/ ReadClock(self)
  \/ ReadFields(self)
  \/ BuildResponse(self)
  \/ Complete(self)
  \/ LogError(self)
  \/ ReturnError(self)

\* one handler instance, invoked again and again with any event and context
Next ==
  \/ Invoke("A", Events, Contexts)
  \/ Handler("A")
  \/ Tick

Spec == Init /\ [][Next]_vars

\* two handler instances running side by side
NextPair ==
  \/ \E self \in Invocations : Invoke(self, PairEvents, PairContexts)
  \/ \E self \in Invocations : Handler(self)
  \/ Tick

SpecPair == Init /\ [][NextPair]_vars


(***************************************************************************)
(* Properties                                                              *)
(***************************************************************************)
Returned(self) == pc[self] = "returned"
Status(self) == result[self].statusCode
\* the body of the returned envelope, read back
Body(self) == JsonLoads(result[self].body)
InTry(self) ==
  pc[self] \in {"start", "log_event", "request_id", "current_time", "read_fields",
                "build", "complete"}
InExcept(self) == pc[self] \in {"except", "error_response"}
Levels(self, level) == {i \in DOMAIN log[self] : log[self][i].level = level}
Emitted(self, rec) == \E i \in DOMAIN log[self] : log[self][i] = rec

\* C1: an exception raised inside the try block is taken to the except
\* clause, and the invocation it was raised in returns a 500 envelope; an
\* exception reaches the caller only from inside the except clause.
C1_ExceptionsBecome500 ==
  [][\A self \in Invocations :
       /\ (InTry(self) /\ exc'[self] # exc[self]) => pc'[self] = "except"
       /\ (pc[self] # "returned" /\ pc'[self] = "returned" /\ exc[self] # NoExc)
            => result'[self].statusCode = 500
       /\ (pc[self] # "raised" /\ pc'[self] = "raised") => InExcept(self)]_vars

C1_Witness ==
  /\ Returned("A") /\ exc["A"] = Boom /\ Status("A") = 500

\* C2 as stated: the status is 200 whenever the event serializes, and 500
\* whenever a step raised.
C2_Original ==
  \A self \in Invocations :
    Returned(self) =>
      /\ Serializable(event[self]) => Status(self) = 200
      /\ exc[self] # NoExc => Status(self) = 500

\* what line 34 makes of the context, written out case by case
RequestIdUsable(c) ==
  \/ c.isNone
  \/ ~c.truthy
  \/ c.attr.kind = "absent"
  \/ c.attr.kind = "value" /\ Serializable(c.attr.v)

\* C2: the status is 200 exactly when the event serializes and the request id
\* derived from the context is read without an exception and serializes; it
\* is 500 whenever a step raised.
C2_StatusByInput ==
  \A self \in Invocations :
    Returned(self) =>
      /\ Status(self) = 200 <=> (Serializable(event[self]) /\ RequestIdUsable(context[self]))
      /\ Status(self) = 500 <=> exc[self] # NoExc

C2_Witness ==
  /\ Returned("A") /\ Serializable(event["A"]) /\ Status("A") = 500
  /\ context["A"].attr = AttrValue(Bytes)

\* C3: in a success envelope request_id is "local" for a null context, the
\* aws_request_id attribute of a non-null context that has it, and "unknown"
\* for a non-null context without it, falsy contexts included.
C3_RequestIdByContext ==
  \A self \in Invocations :
    (Returned(self) /\ Status(self) = 200 /\ context[self].attr.kind # "raises") =>
      Body(self).v[K_request_id] =
        IF context[self].isNone THEN Str(<<"l", "o", "c", "a", "l">>)
        ELSE IF context[self].attr.kind = "value" THEN context[self].attr.v
        ELSE Str(<<"u", "n", "k", "n", "o", "w", "n">>)

\* C4: a returned envelope has status 200 or 500 and the header set of its
\* status; Content-Type is the same in all of them.
C4_HeadersByStatus ==
  \A self \in Invocations :
    Returned(self) =>
      LET h == result[self].headers IN
      /\ Status(self) \in {200, 500}
      /\ Status(self) = 200 =>
           /\ DOMAIN h = {"Content-Type", "X-Toukon-Power", "X-Python-Engine"}
           /\ h["X-Toukon-Power"] = "MAX"
           /\ h["X-Python-Engine"] = "True"
      /\ Status(self) = 500 =>
           /\ DOMAIN h = {"Content-Type", "X-Toukon-Error"}
           /\ h["X-Toukon-Error"] = "True"
      /\ h["Content-Type"] = "application/json; charset=utf-8"
      /\ \A other \in Invocations :
           Returned(other) => result[other].headers["Content-Type"] = h["Content-Type"]

C4_Witness ==
  /\ Returned("A") /\ Status("A") = 200
  /\ Returned("B") /\ Status("B") = 500

\* C5: in a success body, message is the greeting prefix followed by the
\* event's message when the key is present and by the default greeting when
\* it is absent; test_param is the event's test when present and "default"
\* when absent.
C5_OptionalFields ==
  \A self \in Invocations :
    (Returned(self) /\ Status(self) = 200) =>
      LET e == event[self].v
          b == Body(self)
      IN /\ b.t = "dict"
         /\ b.v[K_message] =
              Str(GreetingPrefix \o
                  (IF K_message \in DOMAIN e THEN PyStr(e[K_message])
                   ELSE <<"U+95D8", "U+9B42", "U+6CE8", "U+5165", "!">>))
         /\ b.v[K_test_param] =
              IF K_test \in DOMAIN e THEN e[K_test]
              ELSE Str(<<"d", "e", "f", "a", "u", "l", "t">>)

C5_Witness ==
  /\ Returned("A") /\ Status("A") = 200
  /\ K_message \in DOMAIN event["A"].v /\ event["A"].v[K_message] = None
  /\ K_test \notin DOMAIN event["A"].v

\* C6: a success body parses back to the payload that was built, and its
\* input_event equals the event.
C6_BodyRoundTrip ==
  \A self \in Invocations :
    (Returned(self) /\ Status(self) = 200) =>
      /\ Body(self) = response_data[self]
      /\ Body(self).v[K_input_event] = event[self]

C6_Witness ==
  /\ Returned("A") /\ Status("A") = 200
  /\ K_extra \in DOMAIN event["A"].v /\ event["A"].v[K_extra] = Dict(Entry(K_inner, None))
  /\ K_message \in DOMAIN event["A"].v
  /\ event["A"].v[K_message] = Str(<<"\"", "\\", "LF", "U+95D8">>)

\* C7: the body of a 500 envelope is an object with exactly the fields error,
\* message, timestamp and status: the fixed description, str() of the caught
\* exception, the clock as read when the envelope is built, and "ERROR".
C7_ErrorBody ==
  [][\A self \in Invocations :
       (pc[self] # "returned" /\ pc'[self] = "returned"
          /\ result'[self].statusCode = 500) =>
         LET b == JsonLoads(result'[self].body) IN
         /\ b.t = "dict"
         /\ DOMAIN b.v = {K_error, K_message, K_timestamp, K_status}
         /\ b.v[K_error] = ErrorDescription
         /\ b.v[K_message] = Str(exc[self].msg)
         /\ b.v[K_timestamp] = Str(IsoFormatZ(clock))
         /\ b.v[K_status] = Str(<<"E", "R", "R", "O", "R">>)]_vars

C7_Witness ==
  /\ Returned("A") /\ Status("A") = 500
  /\ current_time["A"] # Unbound
  /\ Body("A").v[K_timestamp] # current_time["A"]
  /\ Body("A").v[K_message] = Str(TypeErrorMsg)

WithoutTimestamp(b) == [k \in (DOMAIN b.v) \ {K_timestamp} |-> b.v[k]]

\* C9: two invocations given equal event and equal context return envelopes
\* with the same status, the same headers and the same body fields other than
\* timestamp, whatever ran before or runs beside them.
C9_Independent ==
  \A a, b \in Invocations :
    (Returned(a) /\ Returned(b) /\ event[a] = event[b] /\ context[a] = context[b]) =>
      /\ Status(a) = Status(b)
      /\ result[a].headers = result[b].headers
      /\ WithoutTimestamp(Body(a)) = WithoutTimestamp(Body(b))

C9_Witness ==
  /\ Returned("A") /\ Returned("B")
  /\ event["A"] = event["B"] /\ context["A"] = context["B"]
  /\ Status("A") = 200
  /\ Body("A").v[K_timestamp] # Body("B").v[K_timestamp]

\* C10: no step of an invocation changes the event or the context it was
\* called with.
C10_InputsUnchanged ==
  [][\A self \in Invocations :
       (InTry(self) \/ InExcept(self)) =>
         /\ event'[self] = event[self]
         /\ context'[self] = context[self]]_vars

C10_Witness ==
  /\ Returned("A") /\ Status("A") = 500
  /\ K_test \notin DOMAIN event["A"].v
  /\ context["A"] = ContextObject(TRUE, AttrRaises(Boom))

====
